---- MODULE Spec2Model ----
(***************************************************************************)
(* The PBM codec of svg2pbm.py (class SVG2pbm): ascii2bin, bin2ascii,      *)
(* write_pbm, loadpbm and the part of convert that follows rasterizing.    *)
(*                                                                         *)
(* A Python str is a sequence of character codes and a bytes/bytearray is  *)
(* a sequence of byte values 0..255; a value handed around by the driver   *)
(* is a record [kind |-> "str" | "bytes", val |-> <sequence>].  A call     *)
(* that raises is recorded in ret.exc with the Python exception's name.    *)
(***************************************************************************)
EXTENDS Integers, Sequences, FiniteSets, TLC

VARIABLES
    calls,      \* the calls made so far, in order (the driver's position)
    width,      \* the width argument
    height,     \* the height argument
    input,      \* the value the driver started from
    buffer,     \* the value in hand: the last converter's result
    mode,       \* the mode argument of the last write_pbm / convert
    file,       \* the bytes of the .pbm file, <<>> while there is none
    bodyform,   \* which branch of write_pbm wrote the body: "raw" | "text"
    ret         \* what the last call returned or raised

vars == <<calls, width, height, input, buffer, mode, file, bodyform, ret>>

----------------------------------------------------------------------------
(* Bounds of the model. *)

\* Widths 1..MaxWidth are all tried (8 and 9 are among them).
MaxWidth == 9
\* Heights 1..MaxHeight.
MaxHeight == 2
\* Bit patterns of length 1..MaxPat are repeated to fill a bit-string.
MaxPat == 3
\* A single '1' is put at each of the first MaxHot places of a bit-string.
MaxHot == 18
\* A bit-string may be up to MaxShort characters short of width*height.
MaxShort == 1
\* Byte buffers given to bin2ascii hold 0..MaxBytes bytes.
MaxBytes == 3
\* Widths LINE_LENGTH .. LINE_LENGTH+WideExtra are tried as well.
WideExtra == 2
\* A given file holds 0..MaxComments comment lines.
MaxComments == 2
\* The converters are called at most MaxCalls times in a row.
MaxCalls == 2
\* A given file declares a width of 1..MaxFileWidth ...
MaxFileWidth == 3
\* ... and a height of 1..MaxFileHeight.
MaxFileHeight == 2

----------------------------------------------------------------------------
(* Character codes and literals of the source. *)

LF == 10
SPACE == 32
HASH == 35
CH0 == 48
CH1 == 49
\* line 126: "A line should not exceed 70 characters."
LINE_LENGTH == 70

P1 == <<80, 49>>
P4 == <<80, 52>>
\* "# Created by svg2pbm converter\n"
CreatorComment ==
    <<35, 32, 67, 114, 101, 97, 116, 101, 100, 32, 98, 121, 32, 115, 118,
      103, 50, 112, 98, 109, 32, 99, 111, 110, 118, 101, 114, 116, 101,
      114, 10>>

Str(v) == [kind |-> "str", val |-> v]
Bytes(v) == [kind |-> "bytes", val |-> v]
NoRet == [exc |-> "none"]

----------------------------------------------------------------------------
(* Python primitives. *)

Min(a, b) == IF a <= b THEN a ELSE b

\* s[a:b] for 0 <= a: clipped to the sequence, empty when a >= b.
Slice(s, a, b) == SubSeq(s, a + 1, Min(b, Len(s)))

\* f'{byte:08b}': eight characters, most significant bit first.
Format08b(byte) == [k \in 1..8 |-> CH0 + ((byte \div (2 ^ (8 - k))) % 2)]

\* f'{0:0{refiller}b}': the number 0 in binary, zero-padded to refiller
\* characters (one character at least).
FormatZero(refiller) == [k \in 1..(IF refiller >= 1 THEN refiller ELSE 1) |-> CH0]

\* int(s, 2) of a non-empty s over the characters the model generates
\* ('0', '1' and characters that are no digit, sign, blank or underscore):
\* the value, or -1 for ValueError.
\* a slip: the first character taken as the least significant bit
RECURSIVE IntBase2Lsb(_)
IntBase2Lsb(s) ==
    IF Len(s) = 0 THEN 0
    ELSE LET hi == IntBase2Lsb(Tail(s))
         IN IF hi < 0 \/ s[1] \notin {CH0, CH1} THEN -1
            ELSE 2 * hi + (s[1] - CH0)

RECURSIVE IntBase2(_)
IntBase2(s) ==
    IF Len(s) = 0 THEN 0
    ELSE LET hi == IntBase2(SubSeq(s, 1, Len(s) - 1))
             c == s[Len(s)]
         IN IF hi < 0 \/ c \notin {CH0, CH1} THEN -1
            ELSE 2 * hi + (c - CH0)

----------------------------------------------------------------------------
(* ascii2bin, lines 66-81. *)

\* lines 70-71: every width-slice of asciibuffer followed by the refiller.
RECURSIVE PadRows(_, _, _, _)
PadRows(asciibuffer, w, refiller, col) ==
    IF col >= Len(asciibuffer) THEN <<>>
    ELSE Slice(asciibuffer, col, col + w) \o FormatZero(refiller)
         \o PadRows(asciibuffer, w, refiller, col + w)

\* lines 73-80: eight characters at a time, the last ones fewer if so;
\* byte i is built from rbuffer[8(i-1) : 8i].
PackBytes(rbuffer) ==
    [i \in 1..((Len(rbuffer) + 7) \div 8) |->
        IntBase2(Slice(rbuffer, 8 * (i - 1), 8 * i))]

Refiller(w) == 8 - (w % 8)

\* ascii2bin(asciibuffer, width) for width >= 1.
ascii2bin(asciibuffer, w) ==
    LET binbuffer == PackBytes(PadRows(asciibuffer, w, Refiller(w), 0))
    IN IF \E i \in 1..Len(binbuffer) : binbuffer[i] < 0
       THEN [exc |-> "ValueError", val |-> <<>>]
       ELSE [exc |-> "none", val |-> binbuffer]

----------------------------------------------------------------------------
(* bin2ascii, lines 55-64. *)

\* lines 59-60: character i of buffer is character (i-1) % 8 of the
\* eight that byte (i-1) / 8 is formatted to.
BitText(bytebuffer) ==
    [i \in 1..(8 * Len(bytebuffer)) |->
        Format08b(bytebuffer[((i - 1) \div 8) + 1])[((i - 1) % 8) + 1]]

\* lines 62-63
RECURSIVE TakeRows(_, _, _, _)
TakeRows(bits, w, stride, col) ==
    IF col >= Len(bits) THEN <<>>
    ELSE Slice(bits, col, col + w) \o TakeRows(bits, w, stride, col + stride)

\* a slip: rows stepped over to the next byte boundary, 8*ceil(w/8) bits,
\* where ascii2bin writes w + refiller
bin2asciiCeil(bytebuffer, w) ==
    [exc |-> "none",
     val |-> TakeRows(BitText(bytebuffer), w, 8 * ((w + 7) \div 8), 0)]

\* bin2ascii(bytebuffer, width); range() raises on a step of 0 and is
\* empty on a negative one.
bin2ascii(bytebuffer, w) ==
    LET stride == w + Refiller(w)
    IN IF stride = 0 THEN [exc |-> "ValueError", val |-> <<>>]
       ELSE IF stride < 0 THEN [exc |-> "none", val |-> <<>>]
       ELSE [exc |-> "none", val |-> TakeRows(BitText(bytebuffer), w, stride, 0)]

----------------------------------------------------------------------------
(* write_pbm, lines 95-128. *)

\* a slip: the digits in the order they are computed, lowest first
RECURSIVE DigitsReversed(_)
DigitsReversed(n) ==
    IF n < 10 THEN <<CH0 + n>> ELSE <<CH0 + (n % 10)>> \o DigitsReversed(n \div 10)

RECURSIVE Digits(_)
Digits(n) == IF n < 10 THEN <<CH0 + n>> ELSE Digits(n \div 10) \o <<CH0 + (n % 10)>>

\* f"{n}" of an int
FormatInt(n) == IF n < 0 THEN <<45>> \o Digits(0 - n) ELSE Digits(n)

\* lines 120-122
Header(w, h, m) ==
    (IF m = "ascii" THEN P1 ELSE P4) \o <<LF>>
    \o CreatorComment
    \o FormatInt(w) \o <<SPACE>> \o FormatInt(h) \o <<LF>>

\* a slip: the limit of 70 characters forgotten
LineLengthUncapped(w) == w

\* line 126
LineLength(w) == IF w >= LINE_LENGTH THEN LINE_LENGTH ELSE w

\* lines 127-128, for line_length >= 1
RECURSIVE WrapLines(_, _, _)
WrapLines(text, line_length, col) ==
    IF col >= Len(text) THEN <<>>
    ELSE Slice(text, col, col + line_length) \o <<LF>>
         \o WrapLines(text, line_length, col + line_length)

\* write_pbm(filenname, buffer, width, height, mode): the file it leaves,
\* the branch that wrote the body and the exception it raised.  f.write
\* takes bytes only, and a bytearray slice and '\n' do not concatenate.
write_pbm(buf, w, h, m) ==
    IF m = "bin"
    THEN IF buf.kind = "bytes"
         THEN [exc |-> "none", file |-> Header(w, h, m) \o buf.val, bodyform |-> "raw"]
         ELSE [exc |-> "TypeError", file |-> Header(w, h, m), bodyform |-> "raw"]
    ELSE IF LineLength(w) = 0
         THEN [exc |-> "ValueError", file |-> Header(w, h, m), bodyform |-> "text"]
    ELSE IF LineLength(w) < 0 \/ Len(buf.val) = 0
         THEN [exc |-> "none", file |-> Header(w, h, m), bodyform |-> "text"]
    ELSE IF buf.kind = "bytes"
         THEN [exc |-> "TypeError", file |-> Header(w, h, m), bodyform |-> "text"]
    ELSE [exc |-> "none",
          file |-> Header(w, h, m) \o WrapLines(buf.val, LineLength(w), 0),
          bodyform |-> "text"]

----------------------------------------------------------------------------
(* loadpbm, lines 23-53. *)

\* f.readline() at offset pos: through the first newline, or to the end.
RECURSIVE LineEnd(_, _)
LineEnd(f, pos) ==
    IF pos >= Len(f) THEN Len(f)
    ELSE IF f[pos + 1] = LF THEN pos + 1
    ELSE LineEnd(f, pos + 1)

ReadLine(f, pos) == Slice(f, pos, LineEnd(f, pos))

\* s[:-1]
DropLast(s) == SubSeq(s, 1, Len(s) - 1)

\* bytes.decode('ascii') raises on a byte above 127
IsAscii(s) == \A i \in 1..Len(s) : s[i] < 128

\* the characters int() strips
IsSpace(c) == c \in {9, 10, 11, 12, 13, SPACE}
IsDigit(c) == c \in CH0..(CH0 + 9)

RECURSIVE Strip(_)
Strip(s) ==
    IF Len(s) = 0 THEN s
    ELSE IF IsSpace(s[1]) THEN Strip(Tail(s))
    ELSE IF IsSpace(s[Len(s)]) THEN Strip(DropLast(s))
    ELSE s

RECURSIVE DecimalValue(_)
DecimalValue(s) ==
    IF Len(s) = 0 THEN 0
    ELSE IF s[Len(s)] = 95 THEN DecimalValue(DropLast(s))
    ELSE 10 * DecimalValue(DropLast(s)) + (s[Len(s)] - CH0)

\* int(s) of an ASCII str: blanks stripped, an optional sign, then digits
\* with single underscores between them.
ParseInt(s) ==
    LET t == Strip(s)
        signed == Len(t) > 0 /\ t[1] \in {43, 45}
        d == IF signed THEN Tail(t) ELSE t
        ok == /\ Len(d) > 0
              /\ \A i \in 1..Len(d) : IsDigit(d[i]) \/ d[i] = 95
              /\ IsDigit(d[1]) /\ IsDigit(d[Len(d)])
              /\ \A i \in 1..(Len(d) - 1) : ~(d[i] = 95 /\ d[i + 1] = 95)
    IN IF ~ok THEN [ok |-> FALSE, val |-> 0]
       ELSE [ok |-> TRUE,
             val |-> IF signed /\ t[1] = 45 THEN 0 - DecimalValue(d) ELSE DecimalValue(d)]

\* dim.split(' '): the positions of the blanks
Blanks(s) == {i \in 1..Len(s) : s[i] = SPACE}

\* "".join(text.split('\n'))
NotLF(c) == c # LF
JoinLines(text) == SelectSeq(text, NotLF)

Raised(e) == [exc |-> e, mode |-> <<>>, data |-> <<>>, width |-> 0, height |-> 0]

\* loadpbm(filename) on a file holding the bytes f
loadpbm(f) ==
    LET line1 == ReadLine(f, 0)
        line2 == ReadLine(f, Len(line1))
        line3 == ReadLine(f, Len(line1) + Len(line2))
        magic == DropLast(line1)
        dim == DropLast(line3)
        data == Slice(f, Len(line1) + Len(line2) + Len(line3), Len(f))
        sp == CHOOSE i \in Blanks(dim) : TRUE
        w == ParseInt(SubSeq(dim, 1, sp - 1))
        h == ParseInt(SubSeq(dim, sp + 1, Len(dim)))
    IN IF ~IsAscii(magic) THEN Raised("UnicodeDecodeError")              \* line 42
       ELSE IF ~IsAscii(dim) THEN Raised("UnicodeDecodeError")           \* line 45
       ELSE IF Cardinality(Blanks(dim)) # 1 THEN Raised("ValueError")    \* line 45
       ELSE IF magic = P1
            THEN IF ~IsAscii(data) THEN Raised("UnicodeDecodeError")     \* line 48
                 ELSE IF ~w.ok \/ ~h.ok THEN Raised("ValueError")        \* line 53
                 ELSE [exc |-> "none", mode |-> magic, data |-> JoinLines(data),
                       width |-> w.val, height |-> h.val]
       ELSE IF magic = P4
            THEN IF ~w.ok THEN Raised("ValueError")                      \* line 50
                 ELSE IF bin2ascii(data, w.val).exc # "none"
                      THEN Raised(bin2ascii(data, w.val).exc)
                 ELSE IF ~h.ok THEN Raised("ValueError")                 \* line 53
                 ELSE [exc |-> "none", mode |-> magic,
                       data |-> bin2ascii(data, w.val).val,
                       width |-> w.val, height |-> h.val]
       ELSE Raised("Exception")                                          \* line 52

----------------------------------------------------------------------------
(* The inputs the driver starts from. *)

Patterns == UNION {[1..n -> {CH0, CH1}] : n \in 1..MaxPat}
Repeat(p, n) == [i \in 1..n |-> p[((i - 1) % Len(p)) + 1]]
OneHot(k, n) == [i \in 1..n |-> IF i = k THEN CH1 ELSE CH0]
\* bit-strings of length n
BitStrings(n) == {Repeat(p, n) : p \in Patterns} \cup {OneHot(k, n) : k \in 1..Min(n, MaxHot)}

\* bit-strings for height h of width w, or up to MaxShort characters fewer
Bitmaps(w, h) ==
    UNION {BitStrings(w * h - d) : d \in {e \in 0..MaxShort : e <= w * h}}

ByteVals == {0, 1, 10, 128, 160, 255}
ByteBuffers == UNION {[1..n -> ByteVals] : n \in 0..MaxBytes}

SmallWidths == 1..MaxWidth
WideWidths == LINE_LENGTH..(LINE_LENGTH + WideExtra)
Modes == {"ascii", "bin", "binary"}

----------------------------------------------------------------------------
(* The calls. *)

Last(s) == IF Len(s) = 0 THEN "start" ELSE s[Len(s)]

\* binbuffer = frame.ascii2bin(image, width)
Ascii2bin ==
    /\ buffer.kind = "str"
    /\ ret.exc = "none"
    /\ Last(calls) \in {"start", "bin2ascii"}
    /\ Len(calls) < MaxCalls
    /\ LET r == ascii2bin(buffer.val, width)
       IN /\ buffer' = (IF r.exc = "none" THEN Bytes(r.val) ELSE buffer)
          /\ ret' = [exc |-> r.exc]
    /\ calls' = Append(calls, "ascii2bin")
    /\ UNCHANGED <<width, height, input, mode, file, bodyform>>

\* asciibuffer = frame.bin2ascii(image, width)
Bin2ascii ==
    /\ buffer.kind = "bytes"
    /\ ret.exc = "none"
    /\ Last(calls) \in {"start", "ascii2bin"}
    /\ Len(calls) < MaxCalls
    /\ LET r == bin2ascii(buffer.val, width)
       IN /\ buffer' = (IF r.exc = "none" THEN Str(r.val) ELSE buffer)
          /\ ret' = [exc |-> r.exc]
    /\ calls' = Append(calls, "bin2ascii")
    /\ UNCHANGED <<width, height, input, mode, file, bodyform>>

\* frame.write_pbm(name, buffer, width, height, m)
WritePbm(m) ==
    /\ file = <<>>
    /\ ret.exc = "none"
    /\ Last(calls) \in {"start", "ascii2bin"}
    /\ LET r == write_pbm(buffer, width, height, m)
       IN /\ file' = r.file
          /\ bodyform' = r.bodyform
          /\ ret' = [exc |-> r.exc]
    /\ mode' = m
    /\ calls' = Append(calls, "write_pbm")
    /\ UNCHANGED <<width, height, input, buffer>>

\* frame.convert(name, width, height, m) from line 157 on: the bit-string
\* img2pbm_ascii returned is the one in hand.
Convert(m) ==
    /\ calls = <<>>
    /\ buffer.kind = "str"
    /\ file = <<>>
    /\ LET b == ascii2bin(buffer.val, width)
           r == IF m = "ascii" THEN write_pbm(buffer, width, height, "ascii")
                ELSE write_pbm(Bytes(b.val), width, height, "bin")
       IN IF b.exc # "none"
          THEN /\ ret' = [exc |-> b.exc]
               /\ UNCHANGED <<file, bodyform>>
          ELSE IF m \in {"ascii", "bin"}
          THEN /\ ret' = [exc |-> r.exc]
               /\ file' = r.file
               /\ bodyform' = r.bodyform
          ELSE /\ ret' = NoRet
               /\ UNCHANGED <<file, bodyform>>
    /\ mode' = m
    /\ calls' = Append(calls, "convert")
    /\ UNCHANGED <<width, height, input, buffer>>

\* frame.loadpbm(path)
Loadpbm ==
    /\ file # <<>>
    /\ Last(calls) # "loadpbm"
    /\ ret' = loadpbm(file)
    /\ calls' = Append(calls, "loadpbm")
    /\ UNCHANGED <<width, height, input, buffer, mode, file, bodyform>>

----------------------------------------------------------------------------
(* The row-repacking primitives on their own. *)

InitRepack ==
    /\ calls = <<>>
    /\ width \in SmallWidths \cup {2 * 8}
    \* the rows the bit-string was drawn for; no argument of either call
    /\ height \in 0..MaxHeight
    /\ input \in {Str(s) : s \in Bitmaps(width, height)} \cup
                 (IF height = 0 THEN {Bytes(b) : b \in ByteBuffers} ELSE {})
    /\ buffer = input
    /\ mode = "none"
    /\ file = <<>>
    /\ bodyform = "none"
    /\ ret = NoRet

NextRepack == Ascii2bin \/ Bin2ascii

SpecRepack == InitRepack /\ [][NextRepack]_vars

----------------------------------------------------------------------------
(* Writing a bitmap and reading it back. *)

InitCodec ==
    /\ calls = <<>>
    /\ width \in SmallWidths \cup {2 * 8} \cup WideWidths
    /\ height \in 1..MaxHeight
    /\ input \in {Str(s) : s \in Bitmaps(width, height)}
    /\ buffer = input
    /\ mode = "none"
    /\ file = <<>>
    /\ bodyform = "none"
    /\ ret = NoRet

NextCodec ==
    \/ Ascii2bin
    \/ \E m \in Modes : WritePbm(m)
    \/ \E m \in Modes : Convert(m)
    \/ Loadpbm

SpecCodec == InitCodec /\ [][NextCodec]_vars

----------------------------------------------------------------------------
(* Reading a file that some other program wrote. *)

P7 == <<80, 55>>
Magics == {P1, P4, P7}
\* "#c" and "# 3"
CommentTexts == {<<HASH, 99>>, <<HASH, SPACE, 51>>}
FileByteVals == {10, 160, 255}

RECURSIVE CommentLines(_, _)
CommentLines(text, k) ==
    IF k = 0 THEN <<>> ELSE text \o <<LF>> \o CommentLines(text, k - 1)

\* the body text of a P1 file: the characters s in lines of w
TextBody(s, w) == WrapLines(s, LineLength(w), 0)

\* a file: magic line, k comment lines, the dimensions line, the body
GivenFile(magic, text, k, w, h, body) ==
    magic \o <<LF>> \o CommentLines(text, k)
    \o FormatInt(w) \o <<SPACE>> \o FormatInt(h) \o <<LF>>
    \o (IF body.kind = "str" THEN TextBody(body.val, w) ELSE body.val)

\* s with its first character replaced by '2'
Tainted(s) == [i \in 1..Len(s) |-> IF i = 1 THEN CH0 + 2 ELSE s[i]]

\* the bodies tried for a file that declares w x h: bit-strings of the
\* declared length, up to MaxShort shorter or longer, some with a '2';
\* and short byte buffers
FileBodies(w, h) ==
    LET texts == UNION {BitStrings(n) :
                     n \in {m \in (w * h - MaxShort)..(w * h + MaxShort) : m >= 0}}
    IN {Str(s) : s \in texts} \cup {Str(Tainted(s)) : s \in texts}
       \cup {Bytes(b) : b \in UNION {[1..n -> FileByteVals] : n \in 0..MaxBytes}}

InitDecode ==
    /\ calls = <<>>
    /\ width \in 1..MaxFileWidth
    /\ height \in 1..MaxFileHeight
    /\ \E magic \in Magics, text \in CommentTexts, k \in 0..MaxComments,
          body \in FileBodies(width, height) :
          /\ k = 0 => text = <<HASH, 99>>
          /\ input = [kind |-> body.kind, val |-> body.val,
                      magic |-> magic, comments |-> k]
          /\ file = GivenFile(magic, text, k, width, height, body)
    /\ buffer = Bytes(<<>>)
    /\ mode = "none"
    /\ bodyform = "none"
    /\ ret = NoRet

NextDecode == Loadpbm

SpecDecode == InitDecode /\ [][NextDecode]_vars

----------------------------------------------------------------------------
(* What the claims speak of. *)

CeilDiv(a, b) == (a + b - 1) \div b

\* bit k (0 is the most significant) of a byte
BitOf(byte, k) == (byte \div (2 ^ (7 - k))) % 2

IsBitString(s) == \A i \in 1..Len(s) : s[i] \in {CH0, CH1}

\* the error kinds of the specification, as the Python exceptions that
\* stand for them
InvalidLength == {"ValueError"}
MalformedBody == {"ValueError"}
UnsupportedFormat == {"Exception"}

\* the calls that pack a bit-string of whole rows
PackedWholeRows ==
    /\ calls = <<"ascii2bin">>
    /\ input.kind = "str"
    /\ Len(input.val) % width = 0

(* C2: ascii2bin of height rows of width w returns height*ceil(w/8) bytes:
   each row's w bits, most significant bit first, then zero bits up to the
   next byte boundary, and no padding at all when 8 divides w. *)
C2_BinaryBodyLayout ==
    PackedWholeRows =>
        LET rows == Len(input.val) \div width
            bpr == CeilDiv(width, 8)
        IN /\ ret.exc = "none"
           /\ buffer.kind = "bytes"
           /\ Len(buffer.val) = rows * bpr
           /\ \A r \in 0..(rows - 1), j \in 0..(bpr - 1), k \in 0..7 :
                 BitOf(buffer.val[r * bpr + j + 1], k) =
                     IF 8 * j + k < width
                     THEN input.val[r * width + 8 * j + k + 1] - CH0
                     ELSE 0

(* C3: bin2ascii(ascii2bin(s, w), w) = s for every bit-string s of whole
   rows of width w >= 1. *)
C3_PackThenUnpack ==
    (/\ calls = <<"ascii2bin", "bin2ascii">>
     /\ input.kind = "str"
     /\ Len(input.val) % width = 0)
    => (ret.exc = "none" /\ buffer = input)

C3_Witness ==
    /\ calls = <<"ascii2bin", "bin2ascii">>
    /\ width = 8
    /\ Len(input.val) = 16
    /\ input.val[16] = CH1
    /\ buffer = input

\* the bytes of one row as ascii2bin writes it
RowBytes(w) == (w + Refiller(w)) \div 8

\* the bits after the first w of each RowBytes(w)-byte row of b are zero
ZeroPadded(b, w) ==
    \A i \in 1..Len(b), k \in 0..7 :
        8 * ((i - 1) % RowBytes(w)) + k >= w => BitOf(b[i], k) = 0

C8_RejectsPartialRows ==
    /\ (/\ calls = <<"ascii2bin">>
        /\ input.kind = "str"
        /\ Len(input.val) % width # 0)
       => (ret.exc \in InvalidLength /\ buffer = input)
    /\ (/\ calls = <<"bin2ascii">>
        /\ input.kind = "bytes"
        /\ Len(input.val) % CeilDiv(width, 8) # 0)
       => (ret.exc \in InvalidLength /\ buffer = input)

----------------------------------------------------------------------------

\* a bitmap was written in a sub-format and the file read back
WrittenAndRead ==
    /\ Len(input.val) = width * height
    /\ \/ calls = <<"ascii2bin", "write_pbm", "loadpbm">> /\ mode = "bin"
       \/ calls = <<"write_pbm", "loadpbm">> /\ mode = "ascii"
       \/ calls = <<"convert", "loadpbm">> /\ mode \in {"ascii", "bin"}

(* C1: a bitmap of width >= 1 and height >= 1 with width*height bits,
   written by write_pbm in mode 'bin' (the body from ascii2bin) or 'ascii'
   and read back by loadpbm, comes back with the same width, the same
   height and the same bits. *)
C1_RoundTrip ==
    WrittenAndRead =>
        /\ ret.exc = "none"
        /\ ret.mode = (IF mode = "ascii" THEN P1 ELSE P4)
        /\ ret.width = width
        /\ ret.height = height
        /\ ret.data = input.val

C1_Witness ==
    /\ calls = <<"ascii2bin", "write_pbm", "loadpbm">>
    /\ mode = "bin"
    /\ width = 72
    /\ height = 2
    /\ Len(input.val) = 144
    /\ input.val[2] = CH1
    /\ ret.exc = "none"
    /\ ret.data = input.val

\* the bytes of the file after its three header lines
FileBody == SubSeq(file, Len(Header(width, height, mode)) + 1, Len(file))

\* a bit-string was written as an ASCII body
WroteAscii ==
    /\ calls \in {<<"write_pbm">>, <<"convert">>}
    /\ mode = "ascii"

(* C9: the ASCII body write_pbm writes for a bit-string s and a width >= 1
   is newline-terminated lines, none empty and none longer than
   min(70, width), that give s when joined in order. *)
C9_AsciiWrapping ==
    WroteAscii =>
        LET body == FileBody
            limit == Min(70, width)
        IN /\ ret.exc = "none"
           /\ SubSeq(file, 1, Len(file) - Len(body)) = Header(width, height, mode)
           /\ SelectSeq(body, NotLF) = input.val
           /\ Len(body) > 0 => body[Len(body)] = LF
           /\ \A i \in 1..Len(body) : body[i] = LF => (i > 1 /\ body[i - 1] # LF)
           /\ \A i \in 1..(Len(body) - limit) : \E j \in i..(i + limit) : body[j] = LF

C9_Witness ==
    /\ calls = <<"write_pbm">>
    /\ mode = "ascii"
    /\ width = 71
    /\ Len(input.val) = 142
    /\ input.val[71] = CH1
    /\ FileBody[71] = LF
    /\ FileBody[72] = CH1
    /\ FileBody[Len(FileBody) - 3] = LF

(* C10: whatever the mode argument, the file write_pbm leaves has magic P1
   exactly when its body is the wrapped text and magic P4 exactly when its
   body is the raw packed byte buffer. *)
C10_HeaderMatchesBody ==
    (/\ Last(calls) = "write_pbm"
     /\ ret.exc = "none"
     /\ Len(input.val) = width * height) =>
        /\ SubSeq(file, 1, 2) = P1 <=> bodyform = "text"
        /\ SubSeq(file, 1, 2) = P4 <=> bodyform = "raw"
        /\ SubSeq(file, 1, 2) = P4 => (buffer.kind = "bytes" /\ FileBody = buffer.val)

----------------------------------------------------------------------------

\* a file holding a well-formed P1 bitmap after any number of comment lines
GivenBitmap ==
    /\ input.magic = P1
    /\ input.kind = "str"
    /\ IsBitString(input.val)
    /\ width >= 1
    /\ height >= 1
    /\ Len(input.val) = width * height

(* C5: loadpbm skips however many '#' lines follow the magic line, reads
   the first other line as 'width height' and returns the same bitmap
   whatever the number of comment lines. *)
C5_CommentTolerance ==
    (calls = <<"loadpbm">> /\ GivenBitmap) =>
        ret = [exc |-> "none", mode |-> P1, data |-> input.val,
               width |-> width, height |-> height]

(* C6: a file whose first line is neither P1 nor P4 makes loadpbm fail with
   UnsupportedFormat, whatever its other lines hold. *)
C6_BadMagicRejected ==
    (calls = <<"loadpbm">> /\ input.magic \notin {P1, P4}) =>
        ret.exc \in UnsupportedFormat

\* the body of the given file is the one its magic and dimensions call for
BodyFitsHeader ==
    \/ /\ input.magic = P1
       /\ input.kind = "str"
       /\ IsBitString(input.val)
       /\ Len(input.val) = width * height
    \/ /\ input.magic = P4
       /\ input.kind = "bytes"
       /\ Len(input.val) = height * CeilDiv(width, 8)

(* C7: loadpbm either fails or returns width >= 1, height >= 1 and
   width*height bits; a P1 body of another length or with characters other
   than '0' and '1', and a P4 body whose byte count is not
   height*ceil(width/8), fail with MalformedBody. *)
C7_AllOrNothing ==
    calls = <<"loadpbm">> =>
        /\ ret.exc = "none" =>
              /\ ret.width >= 1
              /\ ret.height >= 1
              /\ Len(ret.data) = ret.width * ret.height
              /\ IsBitString(ret.data)
        /\ (input.magic \in {P1, P4} /\ input.comments = 1 /\ ~BodyFitsHeader)
              => ret.exc \in MalformedBody

====
